---- MODULE Spec2Model ----
(***************************************************************************)
(* A model of the two ledger programs of the repository:                   *)
(*   src/bitcoin.py    - blocks carry a nonce, the pending transactions    *)
(*                       and a compact difficulty target (nbits);          *)
(*   src/blockchain.py - blocks carry a proof found by a prefix rule.      *)
(* One behaviour runs one of the two programs (variable `program`).        *)
(*                                                                         *)
(* Strings.  A Python string is modelled by a tuple.  A literal such as    *)
(* '0' is the one-element tuple <<"0">>.  A SHA-256 hexdigest is the       *)
(* two-element tuple <<"sha256", pre>> where pre is the text that was      *)
(* digested: digests are equal exactly when the digested texts are equal   *)
(* (no collisions).  The 64 hexadecimal digits of a digest, which the      *)
(* programs read with int(h, 16) and h[:7], are given by hexdigest.        *)
(*                                                                         *)
(* Aliasing.  bitcoin.py stores in every block the list object             *)
(* self.current_transactions itself.  A block's 'transactions' field is    *)
(* therefore a reference, and Deref reads the object it refers to.         *)
(***************************************************************************)
EXTENDS Integers, Sequences, FiniteSets, TLC

VARIABLES
    program,               \* which script is running
    chain,                 \* Blockchain.chain
    current_transactions,  \* Blockchain.current_transactions (bitcoin.py)
    now,                   \* the last reading of datetime.datetime.now()
    pc,                    \* per request thread: position inside mine_block
    block,                 \* per thread: local `block` of proof_of_work (bitcoin.py)
    previous_block,        \* per thread: local `previous_block` of mine_block (blockchain.py)
    new_proof,             \* per thread: local `new_proof` of proof_of_work (blockchain.py)
    validation,            \* the last call of is_chain_valid and its outcome
    target_call            \* the last call of calculate_target outside mining and its result

vars == <<program, chain, current_transactions, now, pc, block,
          previous_block, new_proof, validation, target_call>>

----------------------------------------------------------------------------
(* Bounds of the model *)

\* the longest chain a behaviour builds (genesis included)
MaxChain == 3
\* the most records submitted to the pool
MaxPool == 2
\* the last nonce / proof the search tries in the model
MaxNonce == 4
\* the largest advance of the clock between two readings
MaxTick == 2

\* request threads of the Flask server
Threads == {1, 2}
\* the strings submitted as transactions
Txs == {"a", "b"}

----------------------------------------------------------------------------
(* Program constants *)

\* bitcoin.py: 'nbits': 486604799
nbits == 486604799
\* '%064x' and the length of a SHA-256 hexdigest
HexLen == 64
\* blockchain.py: hash_operation[:7] == '0000000'
PrefixLen == 7
\* nonce=1 / proof=1 of the genesis block, and the first value the search tries
FirstNonce == 1

Programs == {"bitcoin.py", "blockchain.py"}

----------------------------------------------------------------------------
(* Strings and digests *)

\* the literal '0' passed as previous_hash of the genesis block
ZeroLiteral == <<"0">>

\* hashlib.sha256(text.encode()).hexdigest(), as a symbolic digest
sha256(text) == <<"sha256", text>>

IsDigest(h) == Len(h) = 2

TxCode(tr) == CASE tr = "a" -> 1 [] tr = "b" -> 2 [] OTHER -> 3

RECURSIVE MixList(_)
MixList(s) == IF s = <<>> THEN 1 ELSE (5 * MixList(SubSeq(s, 1, Len(s) - 1)) + TxCode(s[Len(s)])) % 64

\* The digits of a digest are a fixed function of the digested text.  Mix
\* folds the text into a number, HexShapes turns the number into 64 digits.
RECURSIVE Mix(_)
Mix(h) ==
    IF ~IsDigest(h) THEN 0
    ELSE LET text == h[2] IN
         CASE text[1] = "list" -> MixList(text[2])
           [] text[1] = "fstr" -> (3 * text[2] + 5 * Mix(text[3]) + 7 * Mix(text[4]) + 3 * text[5]) % 64
           [] text[1] = "json" -> (text[2] + 5 * Mix(text[3]) + 7 * text[4] + 3 * text[5]) % 64
           [] text[1] = "int"  -> text[2] % 64

Zeros(n) == [i \in 1..n |-> 0]
Fill(n, d) == [i \in 1..n |-> d]

\* The shapes a digest takes in the model, most significant digit first.
HexShapes ==
    << Fill(HexLen, 10),                                           \* no leading zero
       Zeros(8) \o <<0, 0, 0, 1>> \o Fill(HexLen - 12, 7),         \* far below the target
       Zeros(8) \o Fill(4, 15) \o Zeros(HexLen - 12),              \* the target itself
       Fill(HexLen, 3),                                            \* no leading zero
       Zeros(7) \o Fill(HexLen - 7, 9),                            \* seven zeros only
       <<0>> \o Fill(HexLen - 1, 12),                              \* one leading zero
       Zeros(8) \o <<15, 15, 15, 14>> \o Fill(HexLen - 12, 15),    \* just below the target
       Zeros(8) \o Fill(4, 15) \o Zeros(HexLen - 13) \o <<1>> >>   \* just above the target

hexdigest(h) == HexShapes[(Mix(h) % Len(HexShapes)) + 1]

----------------------------------------------------------------------------
(* Python integers written in hexadecimal *)

RECURSIVE StripZeros(_)
StripZeros(s) == IF s # <<>> /\ s[1] = 0 THEN StripZeros(Tail(s)) ELSE s

\* int(s, 16): the number as its digits without leading zeros
HexToInt(s) == StripZeros(s)

RECURSIVE LexLess(_, _)
LexLess(a, b) ==
    IF a = <<>> THEN FALSE
    ELSE IF a[1] # b[1] THEN a[1] < b[1]
    ELSE LexLess(Tail(a), Tail(b))

\* a < b on Python integers
IntLess(a, b) == Len(a) < Len(b) \/ (Len(a) = Len(b) /\ LexLess(a, b))

RECURSIVE ToHex(_)
ToHex(n) == IF n = 0 THEN <<>> ELSE ToHex(n \div 16) \o <<n % 16>>

PadLeft(s, width) == IF Len(s) >= width THEN s ELSE Zeros(width - Len(s)) \o s

----------------------------------------------------------------------------
(* bitcoin.py *)

\* the list object every block's 'transactions' refers to
PoolRef == "self.current_transactions"

Deref(ref) == current_transactions

\* str(self.current_transactions)
StrList(list) == <<"list", list>>

\* create_block(self, nonce, previous_hash); timestamp is the reading of the clock
create_block(self_chain, self_transactions, nonce, previous_hash, timestamp) ==
    [ index             |-> Len(self_chain) + 1,
      timestamp         |-> timestamp,
      nbits             |-> nbits,
      nonce             |-> nonce,
      previous_hash     |-> previous_hash,
      transactions      |-> PoolRef,
      transactions_hash |-> sha256(StrList(self_transactions)) ]

\* a variant that reads the first block instead of the last one
get_previous_block_first(c) == c[1]

\* return self.chain[-1]
get_previous_block(c) == c[Len(c)]

\* a variant that shifts by one byte too few: 1 << (8*(exp - 2))
calculate_target_exp_minus_two(bits) ==
    LET exp  == bits \div (2 ^ 24)
        mant == bits % (2 ^ 24)
        target_hexstr == PadLeft(ToHex(mant) \o Zeros(2 * (exp - 2)), HexLen)
    IN  HexToInt(target_hexstr)

\* exp = bits >> 24; mant = bits & 0xffffff; int('%064x' % (mant * (1 << (8*(exp-3)))), 16)
\* (for exp >= 3; with exp < 3 the shift count is negative and Python raises ValueError)
calculate_target(bits) ==
    LET exp  == bits \div (2 ^ 24)
        mant == bits % (2 ^ 24)
        target_hexstr == PadLeft(ToHex(mant) \o Zeros(2 * (exp - 3)), HexLen)
    IN  HexToInt(target_hexstr)

\* a variant that digests the transaction list as it stands now instead of
\* the stored block["transactions_hash"]
hash_live_transactions(b) ==
    sha256(<<"fstr", b.timestamp, b.previous_hash,
             sha256(StrList(Deref(b.transactions))), b.nonce>>)

\* f'{block["timestamp"]}{block["previous_hash"]}{block["transactions_hash"]}{block["nonce"]}'
hash(b) == sha256(<<"fstr", b.timestamp, b.previous_hash, b.transactions_hash, b.nonce>>)

\* int(hash_operation, 16) < target
MeetsTarget(b) == IntLess(HexToInt(hexdigest(hash(b))), calculate_target(b.nbits))

\* hashlib.sha256(str(current_proof ** 2 - previous_proof ** 2).encode()).hexdigest()
ProofDigest(current_proof, previous_proof) ==
    sha256(<<"int", current_proof * current_proof - previous_proof * previous_proof>>)

\* hash_operation[:7] == '0000000'
HasZeroPrefix(h) == SubSeq(hexdigest(h), 1, PrefixLen) = Zeros(PrefixLen)

\* block[key] of a Python dict
HasKey(b, key) == key \in DOMAIN b

\* the proof check of one iteration of is_chain_valid (the same lines in both programs):
\* previous_proof = previous_block['proof']; current_proof = block['proof'];
\* the digest of current_proof ** 2 - previous_proof ** 2 must start with seven zeros
proof_check(previous, b) ==
    IF ~HasKey(previous, "proof") \/ ~HasKey(b, "proof") THEN "KeyError"
    ELSE IF ~HasZeroPrefix(ProofDigest(b.proof, previous.proof)) THEN "False"
    ELSE "True"

\* is_chain_valid of bitcoin.py, from the block at position i (1-based) on
RECURSIVE is_chain_valid_loop(_, _)
is_chain_valid_loop(c, i) ==
    IF i > Len(c) THEN "True"
    ELSE LET b == c[i]
             previous == c[i - 1]
         IN  IF b.previous_hash # hash(previous) THEN "False"
             ELSE IF proof_check(previous, b) # "True" THEN proof_check(previous, b)
             ELSE is_chain_valid_loop(c, i + 1)

is_chain_valid(c) == is_chain_valid_loop(c, 2)

----------------------------------------------------------------------------
(* blockchain.py *)

\* the block built by create_blockchain(proof, previous_hash)
create_blockchain(self_chain, proof, previous_hash, timestamp) ==
    [ index         |-> Len(self_chain) + 1,
      timestamp     |-> timestamp,
      proof         |-> proof,
      previous_hash |-> previous_hash ]

\* json.dumps(block, sort_keys=True): the keys in alphabetical order
bc_hash(b) == sha256(<<"json", b.index, b.previous_hash, b.proof, b.timestamp>>)

\* the test of one iteration of proof_of_work(previous_proof)
bc_check_proof(proof, previous_proof) == HasZeroPrefix(ProofDigest(proof, previous_proof))

RECURSIVE bc_is_chain_valid_loop(_, _)
bc_is_chain_valid_loop(c, i) ==
    IF i > Len(c) THEN "True"
    ELSE LET b == c[i]
             previous == c[i - 1]
         IN  IF b.previous_hash # bc_hash(previous) THEN "False"
             ELSE IF proof_check(previous, b) # "True" THEN proof_check(previous, b)
             ELSE bc_is_chain_valid_loop(c, i + 1)

bc_is_chain_valid(c) == bc_is_chain_valid_loop(c, 2)

----------------------------------------------------------------------------
(* The state after construction: Blockchain() at import of the script *)

NoBlock == <<>>
NoValidation == [input |-> "none", at |-> 0, length |-> 0, outcome |-> "none"]

NoTargetCall == [bits |-> 0, called |-> FALSE, result |-> <<>>]

Init ==
    /\ program \in Programs
    /\ now = 1
    /\ current_transactions = <<>>
    /\ chain = IF program = "bitcoin.py"
               THEN <<create_block(<<>>, <<>>, FirstNonce, ZeroLiteral, 1)>>
               ELSE <<create_blockchain(<<>>, FirstNonce, ZeroLiteral, 1)>>
    /\ pc = [t \in Threads |-> "idle"]
    /\ block = [t \in Threads |-> NoBlock]
    /\ previous_block = [t \in Threads |-> NoBlock]
    /\ new_proof = [t \in Threads |-> 0]
    /\ validation = NoValidation
    /\ target_call = NoTargetCall

AllIdle == \A t \in Threads : pc[t] = "idle"

Clock == (now + 1)..(now + MaxTick)

----------------------------------------------------------------------------
(* bitcoin.py: /mine_block -> proof_of_work *)

\* a variant in which create_block itself appends the block it builds
\* (the line `# self.chain.append(block)` of create_block, put back)
proof_of_work_begin_appending(t) ==
    /\ program = "bitcoin.py"
    /\ pc[t] = "idle"
    /\ Len(chain) < MaxChain
    /\ \E timestamp \in Clock :
          /\ block' = [block EXCEPT ![t] =
                 create_block(chain, current_transactions, FirstNonce,
                              hash(get_previous_block(chain)), timestamp)]
          /\ chain' = Append(chain, block'[t])
          /\ now' = timestamp
    /\ pc' = [pc EXCEPT ![t] = "search"]
    /\ UNCHANGED <<program, current_transactions, previous_block, new_proof, validation, target_call>>

\* block = self.create_block(1, self.hash(self.get_previous_block()))
proof_of_work_begin(t) ==
    /\ program = "bitcoin.py"
    /\ pc[t] = "idle"
    /\ Len(chain) < MaxChain
    /\ \E timestamp \in Clock :
          /\ block' = [block EXCEPT ![t] =
                 create_block(chain, current_transactions, FirstNonce,
                              hash(get_previous_block(chain)), timestamp)]
          /\ now' = timestamp
    /\ pc' = [pc EXCEPT ![t] = "search"]
    /\ UNCHANGED <<program, chain, current_transactions, previous_block, new_proof, validation, target_call>>

\* a variant that steps the nonce by two: block['nonce'] += 2
proof_of_work_iterate_by_two(t) ==
    /\ program = "bitcoin.py"
    /\ pc[t] = "search"
    /\ IF MeetsTarget(block[t])
       THEN /\ pc' = [pc EXCEPT ![t] = "found"]
            /\ block' = block
       ELSE /\ block[t].nonce < MaxNonce
            /\ block' = [block EXCEPT ![t].nonce = @ + 2]
            /\ pc' = pc
    /\ UNCHANGED <<program, chain, current_transactions, now, previous_block, new_proof, validation, target_call>>

\* one iteration of `while check_nonce is False`
proof_of_work_iterate(t) ==
    /\ program = "bitcoin.py"
    /\ pc[t] = "search"
    /\ IF MeetsTarget(block[t])
       THEN /\ pc' = [pc EXCEPT ![t] = "found"]
            /\ block' = block
       ELSE /\ block[t].nonce < MaxNonce
            /\ block' = [block EXCEPT ![t].nonce = @ + 1]
            /\ pc' = pc
    /\ UNCHANGED <<program, chain, current_transactions, now, previous_block, new_proof, validation, target_call>>

\* a variant that puts the mined block in front: self.chain.insert(0, block)
proof_of_work_insert_front(t) ==
    /\ program = "bitcoin.py"
    /\ pc[t] = "found"
    /\ chain' = <<block[t]>> \o chain
    /\ block' = [block EXCEPT ![t] = NoBlock]
    /\ pc' = [pc EXCEPT ![t] = "idle"]
    /\ UNCHANGED <<program, current_transactions, now, previous_block, new_proof, validation, target_call>>

\* self.chain.append(block); return block
proof_of_work_append(t) ==
    /\ program = "bitcoin.py"
    /\ pc[t] = "found"
    /\ chain' = Append(chain, block[t])
    /\ block' = [block EXCEPT ![t] = NoBlock]
    /\ pc' = [pc EXCEPT ![t] = "idle"]
    /\ UNCHANGED <<program, current_transactions, now, previous_block, new_proof, validation, target_call>>

\* a variant that puts the record in front: current_transactions.insert(0, tr_str)
new_transaction_front(tr_str) ==
    /\ program = "bitcoin.py"
    /\ Len(current_transactions) < MaxPool
    /\ current_transactions' = <<tr_str>> \o current_transactions
    /\ UNCHANGED <<program, chain, now, pc, block, previous_block, new_proof, validation, target_call>>

\* /new_transaction/<tr_str>
new_transaction(tr_str) ==
    /\ program = "bitcoin.py"
    /\ Len(current_transactions) < MaxPool
    /\ current_transactions' = Append(current_transactions, tr_str)
    /\ UNCHANGED <<program, chain, now, pc, block, previous_block, new_proof, validation, target_call>>

\* /get_chain: reads blockchain.chain and its length
get_chain ==
    /\ Len(chain) >= 1
    /\ UNCHANGED vars

----------------------------------------------------------------------------
(* blockchain.py: /mine_block *)

\* previous_block = blockchain.get_previous_block(); previous_proof = previous_block['proof'];
\* proof_of_work starts with new_proof = 1
bc_mine_block_begin(t) ==
    /\ program = "blockchain.py"
    /\ pc[t] = "idle"
    /\ Len(chain) < MaxChain
    /\ previous_block' = [previous_block EXCEPT ![t] = get_previous_block(chain)]
    /\ new_proof' = [new_proof EXCEPT ![t] = FirstNonce]
    /\ pc' = [pc EXCEPT ![t] = "search"]
    /\ UNCHANGED <<program, chain, current_transactions, now, block, validation, target_call>>

\* one iteration of `while check_proof is False`
bc_proof_of_work_iterate(t) ==
    /\ program = "blockchain.py"
    /\ pc[t] = "search"
    /\ IF bc_check_proof(new_proof[t], previous_block[t].proof)
       THEN /\ pc' = [pc EXCEPT ![t] = "found"]
            /\ new_proof' = new_proof
       ELSE /\ new_proof[t] < MaxNonce
            /\ new_proof' = [new_proof EXCEPT ![t] = @ + 1]
            /\ pc' = pc
    /\ UNCHANGED <<program, chain, current_transactions, now, block, previous_block, validation, target_call>>

\* previous_hash = blockchain.hash(previous_block);
\* block = blockchain.create_blockchain(proof, previous_hash), which appends
bc_mine_block_append(t) ==
    /\ program = "blockchain.py"
    /\ pc[t] = "found"
    /\ \E timestamp \in Clock :
          /\ chain' = Append(chain, create_blockchain(chain, new_proof[t],
                                                      bc_hash(previous_block[t]), timestamp))
          /\ now' = timestamp
    /\ previous_block' = [previous_block EXCEPT ![t] = NoBlock]
    /\ new_proof' = [new_proof EXCEPT ![t] = 0]
    /\ pc' = [pc EXCEPT ![t] = "idle"]
    /\ UNCHANGED <<program, current_transactions, block, validation, target_call>>

----------------------------------------------------------------------------
(* Calls of is_chain_valid(chain) *)

\* the method of the running program
self_hash(b) == IF program = "bitcoin.py" THEN hash(b) ELSE bc_hash(b)

self_is_chain_valid(c) ==
    IF program = "bitcoin.py" THEN is_chain_valid(c) ELSE bc_is_chain_valid(c)

\* the chain with the previous_hash of the block at position k replaced
Tampered(c, k, h) == [c EXCEPT ![k].previous_hash = h]

\* the strings a tampered previous_hash is drawn from
TamperStrings(c, k) == {ZeroLiteral, <<"f00d">>, self_hash(c[k])}

\* is_chain_valid(blockchain.chain)
validate_own ==
    /\ validation' = [input |-> "own", at |-> 0, length |-> Len(chain),
                      outcome |-> self_is_chain_valid(chain)]
    /\ UNCHANGED <<program, chain, current_transactions, now, pc, block,
                   previous_block, new_proof, target_call>>

\* is_chain_valid on a copy of the chain with one previous_hash replaced
validate_tampered ==
    /\ Len(chain) >= 2
    /\ \E k \in 1..Len(chain) :
         \E h \in TamperStrings(chain, k) :
            /\ h # chain[k].previous_hash
            /\ validation' = [input |-> "tampered", at |-> k, length |-> Len(chain),
                              outcome |-> self_is_chain_valid(Tampered(chain, k, h))]
    /\ UNCHANGED <<program, chain, current_transactions, now, pc, block,
                   previous_block, new_proof, target_call>>

----------------------------------------------------------------------------
(* Calls of calculate_target(bits) on compact targets other than nbits *)

\* the exponents (top 8 bits) and mantissas (low 24 bits) the calls are drawn from
TargetExps == {3, 4, 5, 29, 32, 33, 64}
TargetMants == {0, 1, 255, 65535, 8388607, 16777215}

BitsSample == {e * (2 ^ 24) + m : e \in TargetExps, m \in TargetMants}

\* blockchain.calculate_target(bits)
calculate_target_call(bits) ==
    /\ program = "bitcoin.py"
    /\ target_call' = [bits |-> bits, called |-> TRUE, result |-> calculate_target(bits)]
    /\ UNCHANGED <<program, chain, current_transactions, now, pc, block,
                   previous_block, new_proof, validation>>

----------------------------------------------------------------------------
(* Specification: mining requests are served one at a time; transaction     *)
(* submissions, chain reads and validations interleave with the search.     *)

Next ==
    \/ \E t \in Threads : AllIdle /\ proof_of_work_begin(t)
    \/ \E t \in Threads : proof_of_work_iterate(t)
    \/ \E t \in Threads : proof_of_work_append(t)
    \/ \E tr_str \in Txs : new_transaction(tr_str)
    \/ \E t \in Threads : AllIdle /\ bc_mine_block_begin(t)
    \/ \E t \in Threads : bc_proof_of_work_iterate(t)
    \/ \E t \in Threads : bc_mine_block_append(t)
    \/ get_chain
    \/ validate_own
    \/ validate_tampered

Spec == Init /\ [][Next]_vars

(* Specification: the Flask server serves every request on a thread of its  *)
(* own and the programs take no lock, so a mining request may start while   *)
(* another one is between reading the last block and appending.             *)
NextOverlap ==
    \/ \E t \in Threads : proof_of_work_begin(t)
    \/ \E t \in Threads : proof_of_work_iterate(t)
    \/ \E t \in Threads : proof_of_work_append(t)
    \/ \E tr_str \in Txs : new_transaction(tr_str)
    \/ \E t \in Threads : bc_mine_block_begin(t)
    \/ \E t \in Threads : bc_proof_of_work_iterate(t)
    \/ \E t \in Threads : bc_mine_block_append(t)
    \/ get_chain
    \/ validate_own
    \/ validate_tampered

SpecOverlap == Init /\ [][NextOverlap]_vars

(* Specification: bitcoin.py mining one block at a time, and calls of       *)
(* calculate_target on a sample of compact targets.                         *)
NextTarget ==
    \/ \E bits \in BitsSample : calculate_target_call(bits)
    \/ \E t \in Threads : AllIdle /\ proof_of_work_begin(t)
    \/ \E t \in Threads : proof_of_work_iterate(t)
    \/ \E t \in Threads : proof_of_work_append(t)

SpecTarget == Init /\ [][NextTarget]_vars

----------------------------------------------------------------------------
(* Views used by the properties *)

\* the transaction list a reader of block b sees
TransactionsOf(b) == Deref(b.transactions)

\* block b as /get_chain serialises it
BlockView(b) ==
    IF program = "bitcoin.py" THEN [b EXCEPT !.transactions = TransactionsOf(b)] ELSE b

InFlight(t) == pc[t] \in {"search", "found"}

\* the number of values the search of thread t has tried and rejected
FailedAttempts(t) ==
    IF program = "bitcoin.py" THEN block[t].nonce - FirstNonce ELSE new_proof[t] - FirstNonce

\* a maximum number of attempts a bounded search would allow
AttemptLimit == 2

----------------------------------------------------------------------------
(* C1 - Linkage: in every state reached by mining one block at a time, with *)
(* transaction submissions in between, the previous_hash stored in every    *)
(* block after the first equals the program's hash of the block before it   *)
(* as that block stands in the chain.                                       *)
C1_Linkage ==
    \A i \in 2..Len(chain) : chain[i].previous_hash = self_hash(chain[i - 1])

\* two blocks were mined by bitcoin.py with a submission in between
C1_Witness ==
    /\ program = "bitcoin.py"
    /\ Len(chain) = 3
    /\ chain[2].transactions_hash # chain[3].transactions_hash
    /\ chain[3].previous_hash = hash(chain[2])

(* C2 - Validity closure: is_chain_valid called on the ledger's own,        *)
(* untampered chain returns True.                                           *)
C2_ValidityClosure ==
    validation.input = "own" => validation.outcome = "True"

(* C3 - Tamper detection: is_chain_valid called on a mined chain of length  *)
(* at least 2 in which one block's previous_hash was replaced by a          *)
(* different string returns False.                                          *)
C3_TamperDetection ==
    (validation.input = "tampered" /\ validation.length >= 2)
        => validation.outcome = "False"

(* C4 - Snapshot isolation: a step taken after a mining request has built   *)
(* its block template leaves the transaction list of that template          *)
(* unchanged, so a record submitted after the template was built is not in  *)
(* the block being mined; and a template lists all records of the pool at   *)
(* the moment it is built.                                                  *)
C4_SnapshotIsolation ==
    [][ /\ \A t \in Threads :
             (program = "bitcoin.py" /\ InFlight(t) /\ pc'[t] \in {"search", "found"})
                 => TransactionsOf(block[t])' = TransactionsOf(block[t])
        /\ \A t \in Threads :
             (program = "bitcoin.py" /\ pc[t] = "idle" /\ pc'[t] = "search")
                 => TransactionsOf(block[t])' = current_transactions ]_vars

(* C5 - Pool drain: when a mining request returns, the pool of pending      *)
(* transactions is empty.                                                   *)
C5_PoolDrain ==
    [][ \A t \in Threads :
           (program = "bitcoin.py" /\ pc[t] = "found" /\ pc'[t] = "idle")
               => current_transactions' = <<>> ]_vars

(* C6 - Sealed-block immutability: no step changes any field, as a reader   *)
(* sees it, of a block that is already in the chain.                        *)
C6_SealedImmutable ==
    [][ \A i \in 1..Len(chain) : BlockView(chain[i])' = BlockView(chain[i]) ]_vars

(* C7 - Genesis invariant: the freshly constructed ledger holds exactly one *)
(* block, with index 1, previous_hash '0' and no transactions; in every     *)
(* later state that block is still the first of the chain and no other      *)
(* block carries the genesis marks.                                         *)
C7_Genesis ==
    /\ Len(chain) = 1
    /\ chain[1].index = 1
    /\ chain[1].previous_hash = ZeroLiteral
    /\ (program = "bitcoin.py" => TransactionsOf(chain[1]) = <<>>)
    /\ [][ /\ chain'[1] = chain[1]
           /\ \A i \in 2..Len(chain') :
                 chain'[i].index # 1 /\ chain'[i].previous_hash # ZeroLiteral ]_vars

\* two blocks were mined on top of the genesis block
C7_Witness ==
    /\ Len(chain) = 3
    /\ chain[1].index = 1
    /\ chain[1].previous_hash = ZeroLiteral
    /\ chain[3].index = 3

(* C8 - Append-only chain: a step changes the chain only by appending one   *)
(* block at its end, and only when a mining request that has found its      *)
(* nonce returns; every returning mining request appends exactly one block; *)
(* a step of the nonce search changes neither the chain nor the pool.       *)
C8_AppendOnly ==
    [][ /\ \/ chain' = chain
           \/ /\ Len(chain') = Len(chain) + 1
              /\ SubSeq(chain', 1, Len(chain)) = chain
              /\ \E t \in Threads : pc[t] = "found" /\ pc'[t] = "idle"
        /\ \A t \in Threads :
              (pc[t] = "found" /\ pc'[t] = "idle") => Len(chain') = Len(chain) + 1
        /\ \A t \in Threads :
              (pc[t] = "search" /\ pc'[t] \in {"search", "found"}
                 /\ (pc'[t] = "found" \/ block'[t] # block[t] \/ new_proof'[t] # new_proof[t]))
                 => chain' = chain /\ current_transactions' = current_transactions ]_vars

\* a fresh ledger after two completed mining requests: three blocks
C8_Witness ==
    /\ Len(chain) = 3
    /\ AllIdle
    /\ chain[2].index = 2
    /\ chain[3].index = 3

(* C9 - Bounded mining: a nonce search that is still running has rejected   *)
(* at most AttemptLimit values; after that many it has stopped with a       *)
(* timeout.                                                                 *)
C9_BoundedMining ==
    \A t \in Threads : pc[t] = "search" => FailedAttempts(t) <= AttemptLimit

(* C10 - Explicit outcome: every call of is_chain_valid on a chain of       *)
(* blocks the ledger produced, tampered or not, ends with True or False.    *)
C10_ExplicitOutcome ==
    validation.input # "none" => validation.outcome \in {"True", "False"}

(* C11 - No lost submissions: every step keeps the records already in the   *)
(* pool, in their order, and only adds behind them; a block template built  *)
(* by a mining request lists, and digests in its transactions_hash, every   *)
(* record submitted before it was built.                                    *)
C11_NoLostSubmissions ==
    [][ /\ Len(current_transactions') >= Len(current_transactions)
        /\ SubSeq(current_transactions', 1, Len(current_transactions)) = current_transactions
        /\ \A t \in Threads :
              (program = "bitcoin.py" /\ pc[t] = "idle" /\ pc'[t] = "search")
                 => /\ block'[t].transactions_hash = sha256(StrList(current_transactions'))
                    /\ TransactionsOf(block[t])' = current_transactions' ]_vars

\* two records submitted after the first mined block was built are in the second
C11_Witness ==
    /\ program = "bitcoin.py"
    /\ Len(chain) = 3
    /\ Len(current_transactions) = 2
    /\ chain[2].transactions_hash = sha256(StrList(<<>>))
    /\ chain[3].transactions_hash = sha256(StrList(current_transactions))

(* C12 - Overlapping mining: under every interleaving of mining requests    *)
(* that overlap in time, every block of the chain carries its position as   *)
(* index, every block after the first stores the hash of the block before   *)
(* it, and no two blocks share an index or a previous_hash.                 *)
C12_OverlapLinkage ==
    /\ \A i \in 1..Len(chain) : chain[i].index = i
    /\ \A i \in 2..Len(chain) : chain[i].previous_hash = self_hash(chain[i - 1])
    /\ \A i, j \in 1..Len(chain) :
          i # j => /\ chain[i].index # chain[j].index
                   /\ chain[i].previous_hash # chain[j].previous_hash

\* the test the mining search applied when it accepted the block at position i
AcceptedByMining(c, i) ==
    IF program = "bitcoin.py" THEN MeetsTarget(c[i])
    ELSE bc_check_proof(c[i].proof, c[i - 1].proof)

(* C13 - Validator checks the proof that sealing produced: for every block  *)
(* after the first, the proof check of the validator passes exactly when    *)
(* the block meets the test the mining search used to accept it.            *)
C13_SameProofRule ==
    \A i \in 2..Len(chain) :
        AcceptedByMining(chain, i) <=> (proof_check(chain[i - 1], chain[i]) = "True")

\* block b with nonce n in place of its own
WithNonce(b, n) == [b EXCEPT !.nonce = n]

\* the nonces (proofs) below the one thread t is at, all tried before it
TriedBefore(t) ==
    IF program = "bitcoin.py" THEN FirstNonce..(block[t].nonce - 1)
    ELSE FirstNonce..(new_proof[t] - 1)

\* the acceptance test of thread t's search, on nonce (proof) n
SearchAccepts(t, n) ==
    IF program = "bitcoin.py" THEN MeetsTarget(WithNonce(block[t], n))
    ELSE bc_check_proof(n, previous_block[t].proof)

(* C14 - Least nonce: the nonce sealed into every mined block of the chain  *)
(* meets the target and no integer from 1 up to it does; a running search   *)
(* has rejected every value from 1 up to the one it is at, and a search     *)
(* that has finished stands at an accepted value.                           *)
C14_LeastNonce ==
    /\ \A i \in 2..Len(chain) :
          IF program = "bitcoin.py"
          THEN /\ chain[i].nonce >= FirstNonce
               /\ MeetsTarget(chain[i])
               /\ \A n \in FirstNonce..(chain[i].nonce - 1) : ~MeetsTarget(WithNonce(chain[i], n))
          ELSE /\ chain[i].proof >= FirstNonce
               /\ bc_check_proof(chain[i].proof, chain[i - 1].proof)
               /\ \A n \in FirstNonce..(chain[i].proof - 1) : ~bc_check_proof(n, chain[i - 1].proof)
    /\ \A t \in Threads :
          InFlight(t) => /\ \A n \in TriedBefore(t) : ~SearchAccepts(t, n)
                         /\ pc[t] = "found" =>
                               SearchAccepts(t, IF program = "bitcoin.py"
                                                THEN block[t].nonce ELSE new_proof[t])

\* a mined block whose search rejected nonce 1 and nonce 2 before it stopped
C14_Witness ==
    /\ program = "bitcoin.py"
    /\ \E i \in 2..Len(chain) :
          /\ chain[i].nonce >= 3
          /\ ~MeetsTarget(WithNonce(chain[i], 1))
          /\ ~MeetsTarget(WithNonce(chain[i], 2))

(* C15 - Only sealed blocks are visible: in every state, also while a nonce *)
(* search is running, every block of the chain after the first meets the    *)
(* test of the mining search, and the template of a search that has not     *)
(* finished is not in the chain.                                            *)
C15_OnlySealedVisible ==
    /\ \A i \in 2..Len(chain) : AcceptedByMining(chain, i)
    /\ \A t \in Threads :
          (program = "bitcoin.py" /\ pc[t] = "search")
              => \A i \in 1..Len(chain) : chain[i] # block[t]

\* a reader's view while a search stands at a nonce that misses the target
C15_Witness ==
    /\ program = "bitcoin.py"
    /\ Len(chain) = 2
    /\ \E t \in Threads : pc[t] = "search" /\ ~MeetsTarget(block[t])

(* C16 - transactions_hash consistency: in every state, the stored          *)
(* transactions_hash of every block of the chain is the digest of that      *)
(* block's transaction list as it stands in that state.                     *)
C16_TransactionsHashConsistent ==
    program = "bitcoin.py" =>
        \A i \in 1..Len(chain) :
            chain[i].transactions_hash = sha256(StrList(TransactionsOf(chain[i])))

(* C17 - Stable digest of sealed blocks: no step changes the hash of a      *)
(* block that is in the chain, and a previous_hash that equals the hash of  *)
(* the block before it still equals it after the step.                      *)
C17_StableDigest ==
    [][ /\ \A i \in 1..Len(chain) : self_hash(chain[i])' = self_hash(chain[i])
        /\ \A i \in 2..Len(chain) :
              chain[i].previous_hash = self_hash(chain[i - 1])
                 => (chain[i].previous_hash = self_hash(chain[i - 1]))' ]_vars

\* a record was submitted after the second block was sealed and linked
C17_Witness ==
    /\ program = "bitcoin.py"
    /\ Len(chain) >= 2
    /\ chain[2].previous_hash = hash(chain[1])
    /\ chain[2].transactions_hash # sha256(StrList(current_transactions))

\* the value of a run of hexadecimal digits, most significant first
RECURSIVE HexValue(_)
HexValue(s) == IF s = <<>> THEN 0 ELSE 16 * HexValue(SubSeq(s, 1, Len(s) - 1)) + s[Len(s)]

\* the top 8 bits and the low 24 bits of a compact target
ExponentOf(bits) == bits \div 16777216
MantissaOf(bits) == bits % 16777216

\* x, a Python integer, is m * 256^k: its 2k low hexadecimal digits are zero
\* and the digits above them are those of m
IsShifted(x, m, k) ==
    IF m = 0 THEN x = <<>>
    ELSE /\ Len(x) > 2 * k
         /\ Len(x) - 2 * k <= 6
         /\ x[1] # 0
         /\ \A j \in (Len(x) - 2 * k + 1)..Len(x) : x[j] = 0
         /\ HexValue(SubSeq(x, 1, Len(x) - 2 * k)) = m

\* the 64-digit digest d, as an unsigned integer, is strictly less than
\* MantissaOf(bits) * 256^(ExponentOf(bits) - 3): d without its 2k low digits is
\* less than the mantissa
StrictlyBelow(d, bits) ==
    LET k   == ExponentOf(bits) - 3
        top == StripZeros(SubSeq(d, 1, Len(d) - 2 * k))
    IN  Len(top) <= 6 /\ HexValue(top) < MantissaOf(bits)

DigestOf(b) == hexdigest(hash(b))

====
